---- MODULE Spec2Model ----
(***************************************************************************)
(* Model of style_transfer.py: assembly of the truncated feature extractor *)
(* with spliced loss probes (get_model_and_losses) and the pixel-space     *)
(* optimizer loop that follows it.                                         *)
(*                                                                         *)
(* Tensors are abstracted.  An image is one representative pixel, an       *)
(* integer in units of 1/One (so [0,1] is 0..One).  An activation is the   *)
(* free term [img, path, gram]: the pixel it was computed from, the        *)
(* sequence of source layers applied to it (0 is the Normalization stage)  *)
(* and whether it was Gram-reduced.  Two activations that are equal as     *)
(* terms are equal tensors whatever the layers compute.                    *)
(***************************************************************************)
EXTENDS Integers, Sequences, FiniteSets, TLC

\* ---------------------------------------------------------------- bounds
\* resolution of a pixel: the interval [0,1] is 0..One
One == 2
\* how far noise and optimizer updates may leave [0,1] on either side
Noise == 1

\* ------------------------------------------------------ program constants
NumSteps == 5000
ReportEvery == 1000
style_weight == 3
content_weight == 1

PixRange == (0 - Noise)..(One + Noise)

\* cnn.children() of torchvision's vgg19().features: 16 convolutions, each
\* followed by a ReLU, in blocks of 2,2,4,4,4 closed by a max-pool
VGG19 ==
  << "Conv2d", "ReLU", "Conv2d", "ReLU", "MaxPool2d",
     "Conv2d", "ReLU", "Conv2d", "ReLU", "MaxPool2d",
     "Conv2d", "ReLU", "Conv2d", "ReLU", "Conv2d", "ReLU", "Conv2d", "ReLU", "MaxPool2d",
     "Conv2d", "ReLU", "Conv2d", "ReLU", "Conv2d", "ReLU", "Conv2d", "ReLU", "MaxPool2d",
     "Conv2d", "ReLU", "Conv2d", "ReLU", "Conv2d", "ReLU", "Conv2d", "ReLU", "MaxPool2d" >>

\* a batch-norm feature stack (the bn_i branch of the walk)
BnNet == << "Conv2d", "BatchNorm2d", "ReLU", "MaxPool2d", "Conv2d", "BatchNorm2d", "ReLU" >>

\* a feature stack holding a layer type the walk does not know
OddNet == << "Conv2d", "ReLU", "MaxPool2d", "Dropout", "Conv2d", "ReLU" >>

default_content_layers == << "conv_4" >>
default_style_layers == << "conv_1", "conv_2", "conv_3", "conv_4", "conv_5" >>

VARIABLES
  pc,              \* "walk" | "loop" | "saved" | "raised"
  error,           \* message of the exception that ended the run, "" if none
  cnn,             \* the source layer sequence, by layer type
  content_layers, style_layers,
  content_img, style_img, input_img,
  model,           \* the extractor: sequence of named modules
  probes,          \* the loss-probe objects, by identity (index)
  content_losses, style_losses,   \* sequences of probe identities
  num_loss, i, k,  \* locals of get_model_and_losses; k is the walk's position
  steps, loss,     \* script variables of the optimizer loop
  printed,         \* the step counts of the progress reports so far, in order
  report,          \* what the latest iteration printed: << >> or <<step, loss>>
  fwd_in,          \* history: the pixel the latest forward pass of the loop saw
  iterations,      \* history: number of completed loop iterations
  saved            \* the images handed to save_image

vars == << pc, error, cnn, content_layers, style_layers, content_img, style_img,
           input_img, model, probes, content_losses, style_losses, num_loss, i, k,
           steps, loss, printed, report, fwd_in,
           iterations, saved >>

NoValue == "none"
\* forward-pass stamps: of the passes run while assembling, and of a probe
\* whose forward never ran (it has no loss attribute yet)
Assembly == 0 - 1
Never == 0 - 2

Range(s) == { s[n] : n \in 1..Len(s) }
Abs(n) == IF n < 0 THEN 0 - n ELSE n

\* ------------------------------------------------------------- tensors
Tensor(pix) == [img |-> pix, path |-> << >>, gram |-> FALSE]

\* a source layer (or the Normalization stage, src = 0) applied to x
Apply(src, x) == [x EXCEPT !.path = Append(@, src)]

gram(x) == [x EXCEPT !.gram = TRUE]

\* 1 - mean cosine similarity, abstracted to a distance that is 0 on equal
\* arguments
CosineLoss(a, b) == Abs(a.img - b.img)

\* clamp_(min=0) only
ClampLow(x) == IF x < 0 THEN 0 ELSE x

Clamp(x) == IF x < 0 THEN 0 ELSE IF x > One THEN One ELSE x

\* ------------------------------------------------------------- probes
NewContentLoss(target) ==
  [kind |-> "content", target |-> target, loss |-> 0, at |-> Never]

NewStyleLoss(target) ==
  [kind |-> "style", target |-> gram(target), loss |-> 0, at |-> Never]

\* the loss is computed on the first forward only
ProbeForwardOnce(p, x, stamp) ==
  IF p.at # Never THEN p
  ELSE IF p.kind = "content"
    THEN [p EXCEPT !.loss = CosineLoss(x, p.target), !.at = stamp]
    ELSE [p EXCEPT !.loss = CosineLoss(gram(x), p.target), !.at = stamp]

\* the forward also rebinds the target to what it compared against
ProbeForwardRetarget(p, x, stamp) ==
  IF p.kind = "content"
    THEN [p EXCEPT !.loss = CosineLoss(x, p.target), !.at = stamp, !.target = x]
    ELSE [p EXCEPT !.loss = CosineLoss(gram(x), p.target), !.at = stamp, !.target = gram(x)]

\* the side effect of a probe's forward: its loss field is overwritten
\* (at: history, the forward pass that wrote it)
ProbeForward(p, x, stamp) ==
  IF p.kind = "content"
    THEN [p EXCEPT !.loss = CosineLoss(x, p.target), !.at = stamp]
    ELSE [p EXCEPT !.loss = CosineLoss(gram(x), p.target), !.at = stamp]

\* StyleLoss.forward returns G instead of input
ProbeOutputGram(p, x) == IF p.kind = "style" THEN gram(x) ELSE x

\* the value a probe's forward returns
ProbeOutput(p, x) == x

\* ------------------------------------------------------------- modules
LayerName(type, idx) ==
  CASE type = "Conv2d"      -> "conv_" \o ToString(idx)
    [] type = "ReLU"        -> "relu_" \o ToString(idx)
    [] type = "MaxPool2d"   -> "pool_" \o ToString(idx)
    [] type = "BatchNorm2d" -> "bn_" \o ToString(idx)
    [] OTHER                -> NoValue

\* no else branch: any layer type is taken
RecognizedAny(type) == TRUE

Recognized(type) == type \in {"Conv2d", "ReLU", "MaxPool2d", "BatchNorm2d"}

\* the index also advances on a max-pool
NextIndexPerBlock(type, idx) == IF type \in {"Conv2d", "MaxPool2d"} THEN idx + 1 ELSE idx

\* the running index after meeting a layer of this type
NextIndex(type, idx) == IF type = "Conv2d" THEN idx + 1 ELSE idx

Names(m) == { m[n].name : n \in 1..Len(m) }

\* torch.nn.Module.add_module: _modules is an ordered dict, so a name already
\* present keeps its place and gets the new module
AddModule(m, e) ==
  IF e.name \in Names(m)
    THEN [n \in 1..Len(m) |-> IF m[n].name = e.name THEN e ELSE m[n]]
    ELSE Append(m, e)

LayerEntry(name, type, src) == [name |-> name, type |-> type, src |-> src, ref |-> 0]
ProbeEntry(name, kind, ref) == [name |-> name, type |-> kind, src |-> 0, ref |-> ref]

IsProbe(e) == e.ref # 0

\* Sequential.forward over modules n..Len(m): the output and the probes after
\* the loss fields the pass wrote
RECURSIVE Forward(_, _, _, _, _)
Forward(m, n, x, ps, stamp) ==
  IF n > Len(m) THEN [out |-> x, probes |-> ps]
  ELSE IF IsProbe(m[n])
    THEN Forward(m, n + 1, ProbeOutput(ps[m[n].ref], x),
                 [ps EXCEPT ![m[n].ref] = ProbeForward(@, x, stamp)], stamp)
    ELSE Forward(m, n + 1, Apply(m[n].src, x), ps, stamp)

RECURSIVE SumLoss(_, _)
SumLoss(ids, ps) ==
  IF ids = << >> THEN 0 ELSE ps[Head(ids)].loss + SumLoss(Tail(ids), ps)

\* ------------------------------------------------- get_model_and_losses
expected_num_loss == Len(content_layers) + Len(style_layers)

\* the model with the first module, before the walk
InitialModel == << LayerEntry("0", "Normalization", 0) >>

\* lines 113-119: the content probe of the layer just appended, if requested
\* st = [model, probes, content_losses, style_losses, num_loss]
SpliceContent(st, name, idx) ==
  IF name \in Range(content_layers)
    THEN LET fw == Forward(st.model, 1, Tensor(content_img), st.probes, Assembly)
             ps == Append(fw.probes, NewContentLoss(fw.out))
         IN [st EXCEPT
               !.probes = ps,
               !.model = AddModule(st.model,
                           ProbeEntry("content_loss_" \o ToString(idx), "content", Len(ps))),
               !.content_losses = Append(@, Len(ps)),
               !.num_loss = @ + 1]
    ELSE st

\* lines 121-126: the style probe of the layer just appended, if requested
SpliceStyle(st, name, idx) ==
  IF name \in Range(style_layers)
    THEN LET fw == Forward(st.model, 1, Tensor(style_img), st.probes, Assembly)
             ps == Append(fw.probes, NewStyleLoss(fw.out))
         IN [st EXCEPT
               !.probes = ps,
               !.model = AddModule(st.model,
                           ProbeEntry("style_loss_" \o ToString(idx), "style", Len(ps))),
               !.style_losses = Append(@, Len(ps)),
               !.num_loss = @ + 1]
    ELSE st

\* break only once the count is exceeded
ShouldBreakLate(n, expected) == n > expected

\* line 128
ShouldBreak(n, expected) == n >= expected

\* one pass of the body of `for layer in cnn.children()`, on layer k; the
\* function returns (and the script goes on to the loop) on break or after
\* the last layer, and the run ends on an unrecognized layer
Walk ==
  /\ pc = "walk"
  /\ k <= Len(cnn)
  /\ LET type == cnn[k]
         idx  == NextIndex(type, i)
         name == LayerName(type, idx)
     IN IF ~Recognized(type)
          THEN /\ pc' = "raised"
               /\ error' = "Unrecognized layer: " \o type
               /\ UNCHANGED << model, probes, content_losses, style_losses,
                               num_loss, i, k >>
          ELSE LET st0 == [model |-> AddModule(model, LayerEntry(name, type, k)),
                           probes |-> probes,
                           content_losses |-> content_losses,
                           style_losses |-> style_losses,
                           num_loss |-> num_loss]
                   st2 == SpliceStyle(SpliceContent(st0, name, idx), name, idx)
               IN /\ model' = st2.model
                  /\ probes' = st2.probes
                  /\ content_losses' = st2.content_losses
                  /\ style_losses' = st2.style_losses
                  /\ num_loss' = st2.num_loss
                  /\ i' = idx
                  /\ IF ShouldBreak(st2.num_loss, expected_num_loss) \/ k = Len(cnn)
                       THEN pc' = "loop" /\ k' = k
                       ELSE pc' = "walk" /\ k' = k + 1
                  /\ error' = error
  /\ UNCHANGED << cnn, content_layers, style_layers, content_img, style_img,
                  input_img, steps, loss, printed, report, fwd_in,
                  iterations, saved >>

\* ------------------------------------------------------ the optimizer loop
\* line 144
LoopGuard(s) == s <= NumSteps

\* the step count is tested before it is incremented
ShouldReportBefore(s) == (s - 1) % ReportEvery = 0

\* line 158
ShouldReport(s) == s % ReportEvery = 0

\* lines 151-155
CombinedLoss(ps) ==
  content_weight * SumLoss(content_losses, ps) + style_weight * SumLoss(style_losses, ps)

\* line 162: Adam moves the pixel by a bounded amount in either direction
OptimizerStep(x) == { x + d : d \in (0 - Noise)..Noise }

\* every probe the loop sums has a loss attribute
LossesReadable(ps) ==
  \A n \in Range(content_losses) \cup Range(style_losses) : ps[n].at # Never

\* line 156: with no probe at all the combined loss is the int 0, which has
\* no backward()
CanBackward == content_losses # << >> \/ style_losses # << >>

\* one iteration of the while loop, lines 145-162; the optimizer step may
\* move the pixel out of [0,1]
Iterate ==
  /\ pc = "loop"
  /\ LoopGuard(steps)
  /\ LET x  == Clamp(input_img)
         fw == Forward(model, 1, Tensor(x), probes, steps)
     IN /\ probes' = fw.probes
        /\ fwd_in' = << x >>
        /\ IF ~LossesReadable(fw.probes)
             THEN /\ pc' = "raised"
                  /\ error' = "AttributeError: loss"
                  /\ input_img' = x
                  /\ UNCHANGED << loss, steps, iterations, printed, report >>
           ELSE IF ~CanBackward
             THEN /\ pc' = "raised"
                  /\ error' = "AttributeError: backward"
                  /\ input_img' = x
                  /\ loss' = 0
                  /\ UNCHANGED << steps, iterations, printed, report >>
             ELSE /\ loss' = CombinedLoss(fw.probes)
                  /\ steps' = steps + 1
                  /\ iterations' = iterations + 1
                  /\ IF ShouldReport(steps + 1)
                       THEN /\ printed' = Append(printed, steps + 1)
                            /\ report' = << steps + 1, CombinedLoss(fw.probes) >>
                       ELSE /\ printed' = printed
                            /\ report' = << >>
                  /\ input_img' \in OptimizerStep(x)
                  /\ UNCHANGED << pc, error >>
  /\ UNCHANGED << cnn, content_layers, style_layers, content_img, style_img,
                  model, content_losses, style_losses, num_loss, i, k, saved >>

\* lines 164-166
Finish ==
  /\ pc = "loop"
  /\ ~LoopGuard(steps)
  /\ input_img' = Clamp(input_img)
  /\ saved' = Append(saved, Clamp(input_img))
  /\ pc' = "saved"
  /\ UNCHANGED << error, cnn, content_layers, style_layers, content_img, style_img,
                  model, probes, content_losses, style_losses, num_loss, i, k,
                  steps, loss, printed, report, fwd_in, iterations >>

Next == Walk \/ Iterate \/ Finish

\* -------------------------------------------------------- initial states
InitLocals ==
  /\ pc = "walk"
  /\ error = ""
  /\ model = InitialModel
  /\ probes = << >>
  /\ content_losses = << >>
  /\ style_losses = << >>
  /\ num_loss = 0
  /\ i = 0
  /\ k = 1
  /\ steps = 0
  /\ loss = 0
  /\ printed = << >>
  /\ report = << >>
  /\ fwd_in = << >>
  /\ iterations = 0
  /\ saved = << >>

\* the script as written: VGG-19 and the default layer names; the reference
\* images are in [0,1], the working image is noise
Init ==
  /\ InitLocals
  /\ cnn = VGG19
  /\ content_layers = default_content_layers
  /\ style_layers = default_style_layers
  /\ content_img = One
  /\ style_img = 0
  /\ input_img \in PixRange

Spec == Init /\ [][Next]_vars

\* get_model_and_losses alone, over source sequences and name lists
NameLists ==
  { << >>, << "conv_1" >>, << "conv_4" >>, << "relu_1", "conv_2" >>,
    << "conv_1", "conv_1" >>, << "pool_2", "conv_17" >>, << "bn_1", "relu_2" >>,
    default_style_layers }

InitAssembly ==
  /\ InitLocals
  /\ cnn \in {VGG19, BnNet, OddNet}
  /\ content_layers \in NameLists
  /\ style_layers \in NameLists
  /\ content_img \in 0..One
  /\ style_img \in 0..One
  /\ input_img = 0

NextAssembly == Walk

SpecAssembly == InitAssembly /\ [][NextAssembly]_vars

\* the whole script over a few source sequences and name lists
Configs ==
  { << VGG19, default_content_layers, default_style_layers >>,
    << VGG19, << "conv_1", "conv_1" >>, << >> >>,
    << BnNet, << "bn_1" >>, << "bn_1", "conv_2", "conv_9" >> >>,
    << BnNet, << >>, << >> >>,
    << OddNet, << "conv_1" >>, << "relu_1" >> >>,
    << OddNet, << "conv_1" >>, << "pool_1", "conv_2" >> >>,
    << OddNet, << >>, << "conv_2" >> >> }

InitAny ==
  /\ InitLocals
  /\ \E c \in Configs : cnn = c[1] /\ content_layers = c[2] /\ style_layers = c[3]
  /\ content_img = One
  /\ style_img = 0
  /\ input_img \in PixRange

SpecAny == InitAny /\ [][Next]_vars

\* ====================================================== the claims
KnownTypes == {"Conv2d", "ReLU", "MaxPool2d", "BatchNorm2d"}

Returned == pc \in {"loop", "saved"}

ProbePositions(m) == { n \in 1..Len(m) : m[n].ref # 0 }
LayerPositions(m) == { n \in 1..Len(m) : m[n].ref = 0 }

\* the position of the layer a probe at position n was spliced after
NamedLayer(m, n) ==
  CHOOSE q \in LayerPositions(m) :
    q < n /\ \A r \in LayerPositions(m) : r < n => r <= q

ConvCount(s, n) == Cardinality({ j \in 1..n : s[j] = "Conv2d" })

\* the number of source layers the walk has been through
Visited == IF pc = "walk" \/ (pc = "raised" /\ fwd_in = << >>)
             THEN k - 1 ELSE k

UpTo(n) == [j \in 1..(n + 1) |-> j - 1]

\* C1: with VGG-19 and the default layer names the function returns 1 content
\* probe and 5 style probes, 6 probes in the extractor, whose last source
\* layer is conv_5 followed only by style_loss_5; no relu_5, conv_6 or any
\* later source layer is in it.
C1_DefaultTruncatedAtConv5 ==
  (Returned /\ cnn = VGG19 /\ content_layers = << "conv_4" >>
     /\ style_layers = << "conv_1", "conv_2", "conv_3", "conv_4", "conv_5" >>)
  => /\ Len(content_losses) = 1
     /\ Len(style_losses) = 5
     /\ Cardinality(ProbePositions(model)) = 6
     /\ model[Len(model)].name = "style_loss_5"
     /\ model[Len(model) - 1].name = "conv_5"
     /\ model[Len(model) - 1].type = "Conv2d"
     /\ \A n \in 1..Len(model) :
          /\ model[n].name \notin {"relu_5", "pool_5", "conv_6"}
          /\ model[n].src <= 11

C1_Witness ==
  /\ pc = "loop" /\ cnn = VGG19 /\ content_layers = default_content_layers
  /\ style_layers = default_style_layers
  /\ Len(model) = 18 /\ num_loss = 6

\* C2: whenever the function returns (here: on the VGG-19 sequence the code
\* walks), the extractor holds exactly len(content_layers) + len(style_layers)
\* probes and its last module is the probe that completed the count.
C2_ProbeCountIsRequested ==
  (Returned /\ cnn = VGG19) =>
    /\ Cardinality(ProbePositions(model)) = Len(content_layers) + Len(style_layers)
    /\ (Len(content_layers) + Len(style_layers) > 0 => model[Len(model)].ref # 0)

\* C3: a run that reaches save_image has performed exactly 5000 iterations.
C3_Exactly5000Iterations == pc = "saved" => iterations = 5000

\* C4: the pixel every forward pass of the loop sees, and the pixel handed to
\* save_image, are within [0,1].
C4_PixelsWithinUnitRange ==
  /\ \A n \in 1..Len(fwd_in) : 0 <= fwd_in[n] /\ fwd_in[n] <= One
  /\ \A n \in 1..Len(saved) : 0 <= saved[n] /\ saved[n] <= One

\* an optimizer step left [0,1] after a forward pass on a clamped pixel
C4_Witness ==
  /\ pc = "loop" /\ iterations >= 2
  /\ fwd_in = << One >> /\ input_img > One

\* C5: when the walk meets a layer that is not a convolution, ReLU, max-pool
\* or batch-norm, the run ends with the error naming the type; nothing is
\* appended for the layer, and neither the loop nor save_image ever runs.
C5_UnrecognizedLayerIsFatal ==
  /\ [][(pc = "walk" /\ k <= Len(cnn) /\ cnn[k] \notin KnownTypes)
          => /\ pc' = "raised"
             /\ error' = "Unrecognized layer: " \o cnn[k]
             /\ model' = model /\ probes' = probes
             /\ content_losses' = content_losses /\ style_losses' = style_losses]_vars
  /\ [][(pc = "raised" /\ iterations = 0)
          => (pc' = "raised" /\ iterations' = 0 /\ steps' = 0 /\ fwd_in' = << >>
              /\ saved' = << >> /\ model' = model)]_vars
  /\ [](\A n \in 1..Len(model) :
          model[n].ref = 0 /\ model[n].src > 0 => cnn[model[n].src] \in KnownTypes)

C5_Witness ==
  /\ pc = "raised" /\ error = "Unrecognized layer: Dropout"
  /\ cnn[k] = "Dropout" /\ Len(model) > 1

C7_TargetsArePrefixOutputs ==
  \A n \in ProbePositions(model) :
    LET p == probes[model[n].ref]
        s == model[NamedLayer(model, n)].src
    IN p.target = [img  |-> IF model[n].type = "content" THEN content_img ELSE style_img,
                   path |-> UpTo(s),
                   gram |-> model[n].type = "style"]

\* one layer in both sets: its style target was computed through its content probe
C7_Witness ==
  /\ pc = "loop" /\ content_img # style_img
  /\ \E n \in ProbePositions(model) :
       /\ n > 3 /\ model[n].type = "style" /\ model[n - 1].type = "content"
       /\ \E q \in ProbePositions(model) : q < n - 1

\* C8: once assembly has returned, no step changes the reference images, a
\* probe's target or kind, the extractor or the probe lists.
C8_LoopFrame ==
  [][Returned =>
       /\ content_img' = content_img
       /\ style_img' = style_img
       /\ model' = model
       /\ content_losses' = content_losses
       /\ style_losses' = style_losses
       /\ Len(probes') = Len(probes)
       /\ \A n \in 1..Len(probes) :
            probes'[n].target = probes[n].target /\ probes'[n].kind = probes[n].kind]_vars

\* iterations have changed the working image and the loss fields
C8_Witness ==
  /\ pc = "loop" /\ iterations >= 2 /\ probes # << >>
  /\ fwd_in # << input_img >>
  /\ \A n \in 1..Len(probes) : probes[n].at = steps - 1

\* C9: the reports made so far are those of step counts 1000, 2000, ... up to
\* the current step count; an iteration reports exactly when its step count
\* is a multiple of 1000, and then the step count and the combined loss of
\* that iteration; every iteration, reporting or not, advances the step
\* count by one and leaves the image one optimizer step from the pixel it
\* forwarded.
C9_ReportEvery1000 ==
  /\ [](/\ printed = [j \in 1..(steps \div 1000) |-> 1000 * j]
        /\ (report # << >> => report = << steps, loss >> /\ steps % 1000 = 0)
        /\ (report = << >> => iterations = 0 \/ steps % 1000 # 0))
  /\ [][iterations' # iterations =>
          /\ iterations' = iterations + 1
          /\ steps' = steps + 1
          /\ loss' = 1 * SumLoss(content_losses, probes') + 3 * SumLoss(style_losses, probes')
          /\ input_img' - Clamp(input_img) \in (0 - Noise)..Noise]_vars

C9_Witness ==
  /\ steps = 3000 /\ printed = << 1000, 2000, 3000 >>
  /\ report = << 3000, loss >> /\ loss > 0

====
